---------------------------- MODULE Spec2Model ----------------------------
(***************************************************************************)
(* The rating/role consistency logic of the caregiving-marketplace         *)
(* backend.  The repository holds three revisions of the route file:       *)
(*   "r1"  src/server.js lines 1-211    (email disabled, no review routes) *)
(*   "r2"  src/server.js lines 212-849  (validated review submission)      *)
(*   "r3"  src/unnamed/part_000         (image upload, review edit/delete) *)
(* A behaviour runs one revision (rev) against one database: the four      *)
(* collections User, Helper, Booking and Review.                           *)
(*                                                                         *)
(* Ratings of listings are kept in tenths (50 is 5.0).  A request body is  *)
(* modelled field by field; an optional field is the empty set when the    *)
(* body does not carry it and a singleton when it does.                    *)
(***************************************************************************)
EXTENDS Integers, FiniteSets, Sequences, TLC

VARIABLES
    rev,        \* the revision of the route file that is running
    users,      \* User collection: email -> role, or NoUser
    helpers,    \* Helper collection: set of listing documents
    bookings,   \* Booking collection: set of booking documents
    reviews,    \* Review collection: set of review documents
    nextOid,    \* next generated _id of a Helper document
    nextBid,    \* next Date.now() booking id
    nextRid,    \* next generated _id of a Review document
    reqs,       \* review submissions in flight (the interleaved specification)
    last        \* the request that completed last and its response

vars == <<rev, users, helpers, bookings, reviews, nextOid, nextBid, nextRid, reqs, last>>

(***************************************************************************)
(* Bounds of the model.                                                    *)
(***************************************************************************)
MaxHelpers == 3      \* Helper documents ever inserted
MaxBookings == 2     \* Booking documents ever inserted
MaxReviewDocs == 2   \* Review documents ever inserted
MaxRecalcReviews == 20  \* size of the review set in the recompute specification

Revisions == {"r1", "r2", "r3"}
Emails == {"sarah@test.com", "amina@test.com"}
SeedEmails == {"sarah@test.com", "robert@test.com"}
HelperEmails == Emails \cup SeedEmails
Roles == {"user", "helper", "admin"}
NoUser == "absent"
HelperStatuses == {"Pending", "Approved"}
BookingStatuses == {"Pending", "Confirmed", "Rejected", "Cancelled"}
ReviewRatings == {2, 5}          \* ratings the clients send (valid: 1..5)
BodyRatings == {10}              \* a rating (tenths) carried by a listing body
BodyReviews == {7}               \* a review count carried by a listing body

Oids == 1..MaxHelpers
Bids == 1..MaxBookings
Rids == 1..MaxReviewDocs
ListedOids == {1, 2}              \* the _ids of the two listings a review may name

Opt(S) == {{}} \cup {{x} : x \in S}
Get(o, d) == IF o = {} THEN d ELSE CHOOSE x \in o : TRUE

(***************************************************************************)
(* Schema defaults.                                                        *)
(***************************************************************************)
DefaultRating == 50
DefaultReviews == 0


(***************************************************************************)
(* Responses.  last names the handler that completed last, the status it   *)
(* answered with and the documents it addressed.  For a role update, run   *)
(* is history: 1 when the call inserted the listing, 2 when the call       *)
(* repeats the call completed just before it, which had inserted it.       *)
(***************************************************************************)
NoArgs == [email |-> "", role |-> "", id |-> 0, rid |-> 0, bid |-> 0, hid |-> 0, run |-> 0]
Resp(op, code, a) == [op |-> op, code |-> code, a |-> a]
NoResp == Resp("start", 0, NoArgs)

(***************************************************************************)
(* Number.prototype.toFixed(1) of the IEEE-754 double sum / n, in tenths.  *)
(* toFixed takes the tenth nearest to the double's exact value and the     *)
(* larger tenth on an exact tie; the double is sum / n rounded to 53       *)
(* significant bits (nearest, ties to even), found by long division.       *)
(***************************************************************************)
RECURSIVE Log2Floor(_)
Log2Floor(i) == IF i <= 1 THEN 0 ELSE 1 + Log2Floor(i \div 2)

RECURSIVE BinRem(_, _, _)
BinRem(r, n, k) == IF k = 0 THEN r ELSE BinRem((2 * r) % n, n, k - 1)

\* the sign of double(sum / n) - sum / n, for sum >= n > 0
DoubleSign(sum, n) ==
    LET k == 52 - Log2Floor(sum \div n)
        rprev == BinRem(sum % n, n, k - 1)
        lowbit == (2 * rprev) \div n
        r == (2 * rprev) % n
    IN  IF r = 0 THEN 0
        ELSE IF 2 * r > n THEN 1
        ELSE IF 2 * r < n THEN 0 - 1
        ELSE IF lowbit = 1 THEN 1 ELSE 0 - 1

ToFixed1(sum, n) ==
    LET q == (10 * sum) \div n
        r == (10 * sum) % n
    IN  IF 2 * r < n THEN q
        ELSE IF 2 * r > n THEN q + 1
        ELSE IF DoubleSign(sum, n) >= 0 THEN q + 1 ELSE q

RECURSIVE SumRatings(_)
SumRatings(S) ==
    IF S = {} THEN 0
    ELSE LET d == CHOOSE x \in S : TRUE IN d.rating + SumRatings(S \ {d})

(***************************************************************************)
(* Queries.  findOne / findOneAndUpdate / findOneAndDelete act on the      *)
(* first matching document in insertion order, the order of the _id.       *)
(***************************************************************************)
ByEmail(hs, e) == {h \in hs : h.email = e}
ById(hs, id) == {h \in hs : h.id = id}
ByOid(hs, oid) == {h \in hs : h.oid = oid}
First(S) == CHOOSE h \in S : \A g \in S : h.oid <= g.oid
ReviewsOf(rvs, hid) == {r \in rvs : r.helperId = hid}
Replace(S, old, new) == (S \ {old}) \cup {new}

\* recalculateHelperRating(helperId): the Helper collection it leaves
recalculateHelperRatingMissingReset(hs, rvs, hid) ==
    LET mine == ReviewsOf(rvs, hid)
        hit == ByOid(hs, hid)
    IN  IF hit = {} \/ mine = {} THEN hs
        ELSE LET h == First(hit)
             IN Replace(hs, h, [h EXCEPT !.rating = ToFixed1(SumRatings(mine), Cardinality(mine)),
                                         !.reviews = Cardinality(mine)])

recalculateHelperRatingAddsCount(hs, rvs, hid) ==
    LET mine == ReviewsOf(rvs, hid)
        hit == ByOid(hs, hid)
    IN  IF hit = {} THEN hs
        ELSE LET h == First(hit)
             IN IF Cardinality(mine) > 0
                THEN Replace(hs, h, [h EXCEPT !.rating = ToFixed1(SumRatings(mine), Cardinality(mine)),
                                              !.reviews = h.reviews + Cardinality(mine)])
                ELSE Replace(hs, h, [h EXCEPT !.rating = 50, !.reviews = 0])

recalculateHelperRating(hs, rvs, hid) ==
    LET mine == ReviewsOf(rvs, hid)
        hit == ByOid(hs, hid)
    IN  IF hit = {} THEN hs
        ELSE LET h == First(hit)
             IN IF Cardinality(mine) > 0
                THEN Replace(hs, h, [h EXCEPT !.rating = ToFixed1(SumRatings(mine), Cardinality(mine)),
                                              !.reviews = Cardinality(mine)])
                ELSE Replace(hs, h, [h EXCEPT !.rating = 50, !.reviews = 0])

\* the aggregate written inline by POST /api/reviews of r2
InlineAggregate(hs, rvs, hid) ==
    LET mine == ReviewsOf(rvs, hid)
        hit == ByOid(hs, hid)
    IN  IF hit = {} \/ Cardinality(mine) = 0 THEN hs
        ELSE LET h == First(hit)
             IN Replace(hs, h, [h EXCEPT !.rating = ToFixed1(SumRatings(mine), Cardinality(mine)),
                                         !.reviews = Cardinality(mine)])

\* a new Helper document with the schema's defaults
NewHelper(oid, id, email, status, body) ==
    [oid |-> oid, id |-> id, email |-> email, status |-> status,
     rating |-> Get(body.rating, DefaultRating), reviews |-> Get(body.reviews, DefaultReviews)]
NoBody == [email |-> {}, status |-> {}, rating |-> {}, reviews |-> {}]

\* { $set: req.body } on a Helper document
SetHelper(h, body) ==
    [h EXCEPT !.email = Get(body.email, h.email), !.status = Get(body.status, h.status),
              !.rating = Get(body.rating, h.rating), !.reviews = Get(body.reviews, h.reviews)]

(***************************************************************************)
(* Initial state: an empty database; r2 seeds two listings at startup.     *)
(***************************************************************************)
seedHelpers ==
    {NewHelper(1, 1, "sarah@test.com", "Approved", NoBody),
     NewHelper(2, 2, "robert@test.com", "Approved", NoBody)}

Init ==
    /\ rev \in Revisions
    /\ users = [e \in Emails |-> NoUser]
    /\ helpers = IF rev = "r2" THEN seedHelpers ELSE {}
    /\ bookings = {}
    /\ reviews = {}
    /\ nextOid = IF rev = "r2" THEN 3 ELSE 1
    /\ nextBid = 1
    /\ nextRid = 1
    /\ reqs = {}
    /\ last = NoResp

(***************************************************************************)
(* Account routes.  Each action is one whole request handler.              *)
(***************************************************************************)
counters == <<nextOid, nextBid, nextRid>>

\* POST /api/register: the role is taken from the request body
Register(e, role) ==
    /\ IF users[e] # NoUser
       THEN /\ last' = Resp("register", 400, NoArgs)
            /\ users' = users
       ELSE /\ users' = [users EXCEPT ![e] = Get(role, "user")]
            /\ last' = Resp("register", 200, NoArgs)
    /\ UNCHANGED <<rev, helpers, bookings, reviews, counters, reqs>>

\* POST /api/google-login: a first login creates the Account with role user
GoogleLogin(e) ==
    /\ rev \in {"r2", "r3"}
    /\ users' = IF users[e] = NoUser THEN [users EXCEPT ![e] = "user"] ELSE users
    /\ last' = Resp("googleLogin", 200, NoArgs)
    /\ UNCHANGED <<rev, helpers, bookings, reviews, counters, reqs>>

\* PUT /api/users/:email (r2): { $set: req.body } on the Account
UpdateUser(e, role) ==
    /\ rev = "r2"
    /\ IF users[e] = NoUser
       THEN /\ users' = users
            /\ last' = Resp("updateUser", 404, NoArgs)
       ELSE /\ users' = [users EXCEPT ![e] = Get(role, users[e])]
            /\ last' = Resp("updateUser", 200, NoArgs)
    /\ UNCHANGED <<rev, helpers, bookings, reviews, counters, reqs>>

\* the Helper collection after findOneAndDelete({ email })
DeleteByEmail(hs, e) ==
    IF ByEmail(hs, e) = {} THEN hs ELSE hs \ {First(ByEmail(hs, e))}

\* DELETE /api/users/:email: r3 also deletes the first listing of that email
DeleteUser(e) ==
    /\ rev \in {"r2", "r3"}
    /\ users' = [users EXCEPT ![e] = NoUser]
    /\ helpers' = IF rev = "r3" THEN DeleteByEmail(helpers, e) ELSE helpers
    /\ last' = Resp("deleteUser",
                    IF rev = "r2" /\ users[e] = NoUser THEN 404 ELSE 200,
                    [NoArgs EXCEPT !.email = e])
    /\ UNCHANGED <<rev, bookings, reviews, counters, reqs>>

(***************************************************************************)
(* PUT /api/admin/users/:email/role.                                       *)
(***************************************************************************)
\* the role branch that deletes the listing
DeletesListing(r, newRole) ==
    IF r = "r2" THEN newRole = "user" \/ newRole = "admin" ELSE newRole # "helper"

\* the Helper collection after the newRole === 'helper' branch
PromoteAlwaysInsert(r, hs, e, oid) ==
    hs \cup {NewHelper(oid, Cardinality(hs) + 1, e, "Approved", NoBody)}

Promote(r, hs, e, oid) ==
    LET existing == ByEmail(hs, e)
    IN  IF existing = {}
        THEN hs \cup {NewHelper(oid, Cardinality(hs) + 1, e, "Approved", NoBody)}
        ELSE LET h == First(existing)
             IN CASE r = "r1" -> Replace(hs, h, [h EXCEPT !.status = "Approved"])
                  [] r = "r2" -> IF h.status = "Pending"
                                 THEN Replace(hs, h, [h EXCEPT !.status = "Approved"])
                                 ELSE hs
                  [] OTHER -> hs

\* if (!updatedUser): User.findOneAndUpdate({ email }, ...) matched an Account
UserFoundUpsert(us, e) == TRUE

UserFound(us, e) == us[e] # NoUser

\* history of successive promotions of one Account
RunOf(e, newRole) ==
    IF newRole # "helper" THEN 0
    ELSE IF ByEmail(helpers, e) = {} THEN 1
    ELSE IF /\ last.op = "setRole" /\ last.code = 200 /\ last.a.email = e
            /\ last.a.role = "helper" /\ last.a.run = 1
         THEN 2
    ELSE 0

SetRole(e, newRole) ==
    /\ LET a == [NoArgs EXCEPT !.email = e, !.role = newRole, !.run = RunOf(e, newRole)]
       IN IF ~UserFound(users, e)
          THEN /\ last' = Resp("setRole", 404, [a EXCEPT !.run = 0])
               /\ UNCHANGED <<users, helpers, nextOid>>
          ELSE /\ (newRole = "helper" /\ ByEmail(helpers, e) = {}) => nextOid <= MaxHelpers
               /\ users' = [users EXCEPT ![e] = newRole]
               /\ helpers' = IF DeletesListing(rev, newRole) THEN DeleteByEmail(helpers, e)
                             ELSE IF newRole = "helper" THEN Promote(rev, helpers, e, nextOid)
                             ELSE helpers
               /\ nextOid' = IF newRole = "helper" /\ ByEmail(helpers, e) = {}
                             THEN nextOid + 1 ELSE nextOid
               /\ last' = Resp("setRole", 200, a)
    /\ UNCHANGED <<rev, bookings, reviews, nextBid, nextRid, reqs>>

(***************************************************************************)
(* Listing routes.                                                         *)
(***************************************************************************)
CreateBodies == [email : {{e} : e \in Emails}, status : {{}},
                 rating : Opt(BodyRatings), reviews : Opt(BodyReviews)]
EditBodies == [email : Opt(Emails), status : Opt(HelperStatuses),
               rating : Opt(BodyRatings), reviews : Opt(BodyReviews)]

RoleOf(us, e) == IF e \in DOMAIN us THEN us[e] ELSE NoUser
\* User.findOneAndUpdate({ email }, { role })
SetUserRole(us, e, role) ==
    IF RoleOf(us, e) = NoUser THEN us ELSE [us EXCEPT ![e] = role]

\* POST /api/helpers: new Helper({ ...req.body, id: count + 1, status: 'Pending' })
CreateHelper(body) ==
    /\ rev \in {"r2", "r3"}
    /\ nextOid <= MaxHelpers
    /\ helpers' = helpers \cup
           {NewHelper(nextOid, Cardinality(helpers) + 1, Get(body.email, ""), "Pending", body)}
    /\ nextOid' = nextOid + 1
    /\ last' = Resp("createHelper", 200, NoArgs)
    /\ UNCHANGED <<rev, users, bookings, reviews, nextBid, nextRid, reqs>>

\* PUT /api/helpers/:id: findOneAndUpdate({ id }, { $set: req.body })
EditHelper(id, body) ==
    /\ rev \in {"r2", "r3"}
    /\ IF ById(helpers, id) = {}
       THEN /\ helpers' = helpers
            /\ last' = Resp("editHelper", IF rev = "r2" THEN 404 ELSE 200, NoArgs)
       ELSE LET h == First(ById(helpers, id))
            IN /\ helpers' = Replace(helpers, h, SetHelper(h, body))
               /\ last' = Resp("editHelper", 200, NoArgs)
    /\ UNCHANGED <<rev, users, bookings, reviews, counters, reqs>>

\* PUT /api/helper-profile/:email: r3 answers 404 when the Account is absent
EditProfile(e, body) ==
    /\ rev \in {"r2", "r3"}
    /\ IF rev = "r3" /\ RoleOf(users, e) = NoUser
       THEN /\ helpers' = helpers
            /\ last' = Resp("editProfile", 404, NoArgs)
       ELSE /\ helpers' = IF ByEmail(helpers, e) = {} THEN helpers
                          ELSE LET h == First(ByEmail(helpers, e))
                               IN Replace(helpers, h, SetHelper(h, body))
            /\ last' = Resp("editProfile", 200, NoArgs)
    /\ UNCHANGED <<rev, users, bookings, reviews, counters, reqs>>

\* PUT /api/helpers/:id/approve
ApproveListing(id) ==
    /\ IF ById(helpers, id) = {}
       THEN /\ UNCHANGED <<helpers, users>>
            /\ last' = Resp("approveListing", IF rev = "r1" THEN 404 ELSE 200, [NoArgs EXCEPT !.id = id])
       ELSE LET h == First(ById(helpers, id))
            IN /\ helpers' = Replace(helpers, h, [h EXCEPT !.status = "Approved"])
               /\ users' = SetUserRole(users, h.email, "helper")
               /\ last' = Resp("approveListing", 200,
                               [NoArgs EXCEPT !.id = id, !.hid = h.oid, !.email = h.email])
    /\ UNCHANGED <<rev, bookings, reviews, counters, reqs>>

\* DELETE /api/helpers/:id
RemoveListing(id) ==
    /\ IF ById(helpers, id) = {}
       THEN /\ UNCHANGED <<helpers, users>>
            /\ last' = Resp("removeListing", 200, [NoArgs EXCEPT !.id = id])
       ELSE LET h == First(ById(helpers, id))
            IN /\ helpers' = helpers \ {h}
               /\ users' = SetUserRole(users, h.email, "user")
               /\ last' = Resp("removeListing", 200,
                               [NoArgs EXCEPT !.id = id, !.hid = h.oid, !.email = h.email])
    /\ UNCHANGED <<rev, bookings, reviews, counters, reqs>>

(***************************************************************************)
(* Booking routes.  A booking's id is Date.now(), later for each request.  *)
(***************************************************************************)
BookingById(bks, id) == {b \in bks : b.id = id}
SetStatus(bks, id, st) == {IF b.id = id THEN [b EXCEPT !.status = st] ELSE b : b \in bks}
\* Booking.updateOne({ id }, { isReviewed })
SetReviewed(bks, id, flag) == {IF b.id = id THEN [b EXCEPT !.isReviewed = flag] ELSE b : b \in bks}

\* POST /api/bookings: r3 spreads req.body into the document
CreateBooking(e, isReviewed) ==
    /\ isReviewed # {} => rev = "r3"
    /\ IF users[e] = NoUser
       THEN /\ UNCHANGED <<bookings, nextBid>>
            /\ last' = Resp("createBooking", 404, NoArgs)
       ELSE /\ nextBid <= MaxBookings
            /\ bookings' = bookings \cup
                   {[id |-> nextBid, status |-> "Pending", isReviewed |-> Get(isReviewed, FALSE)]}
            /\ nextBid' = nextBid + 1
            /\ last' = Resp("createBooking", 200, NoArgs)
    /\ UNCHANGED <<rev, users, helpers, reviews, nextOid, nextRid, reqs>>

\* PUT /api/bookings/:id/approve | reject | cancel
BookingRoutes(r) ==
    IF r = "r2" THEN {"Confirmed", "Rejected", "Cancelled"}
    ELSE IF r = "r3" THEN {"Confirmed", "Cancelled"}
    ELSE {}

SetBookingStatus(id, st) ==
    /\ st \in BookingRoutes(rev)
    /\ bookings' = SetStatus(bookings, id, st)
    /\ last' = Resp("setBookingStatus", 200, NoArgs)
    /\ UNCHANGED <<rev, users, helpers, reviews, counters, reqs>>

\* DELETE /api/bookings/:id (r2)
DeleteBooking(id) ==
    /\ rev = "r2"
    /\ bookings' = bookings \ BookingById(bookings, id)
    /\ last' = Resp("deleteBooking", 200, NoArgs)
    /\ UNCHANGED <<rev, users, helpers, reviews, counters, reqs>>

(***************************************************************************)
(* Review routes.                                                          *)
(***************************************************************************)
SentRatings == ReviewRatings \cup {6}
ReviewBodies == [rating : Opt(ReviewRatings), helperId : Opt(ListedOids), bookingId : Opt(Bids)]
ReviewById(rvs, rid) == {r \in rvs : r.rid = rid}

\* rating: { min: 1, max: 5 }, and r2's check of parseInt(data.rating)
ValidRating(x) == x >= 1 /\ x <= 5

\* bookingId: { unique: true }: the unique index admits the document
UniqueBookingOff(rvs, bid) == TRUE

UniqueBooking(rvs, bid) == \A r \in rvs : r.bookingId # bid

\* the checks of POST /api/reviews before the insert: the status answered, 0 to go on
ReviewGate(r, bks, bid, rating) ==
    IF r # "r2" THEN 0
    ELSE IF ~ValidRating(rating) THEN 400
    ELSE IF BookingById(bks, bid) = {} THEN 404
    ELSE LET b == CHOOSE x \in BookingById(bks, bid) : TRUE
         IN IF b.isReviewed THEN 400
            ELSE IF b.status # "Confirmed" THEN 400
            ELSE 0

\* the rating aggregate written after the insert
Aggregate(r, hs, rvs, hid) ==
    IF r = "r2" THEN InlineAggregate(hs, rvs, hid) ELSE recalculateHelperRating(hs, rvs, hid)

\* POST /api/reviews
SubmitReview(bid, hid, rating) ==
    /\ rev \in {"r2", "r3"}
    /\ LET a == [NoArgs EXCEPT !.bid = bid]
           gate == ReviewGate(rev, bookings, bid, rating)
       IN IF gate # 0
          THEN /\ last' = Resp("submitReview", gate, a)
               /\ UNCHANGED <<helpers, bookings, reviews, nextRid>>
          ELSE IF ~ValidRating(rating) \/ ~UniqueBooking(reviews, bid)
          THEN /\ last' = Resp("submitReview", 500, a)
               /\ UNCHANGED <<helpers, bookings, reviews, nextRid>>
          ELSE LET doc == [rid |-> nextRid, helperId |-> hid, bookingId |-> bid, rating |-> rating]
               IN /\ nextRid <= MaxReviewDocs
                  /\ reviews' = reviews \cup {doc}
                  /\ helpers' = Aggregate(rev, helpers, reviews \cup {doc}, hid)
                  /\ bookings' = SetReviewed(bookings, bid, TRUE)
                  /\ nextRid' = nextRid + 1
                  /\ last' = Resp("submitReview", 201, [a EXCEPT !.hid = hid])
    /\ UNCHANGED <<rev, users, nextOid, nextBid, reqs>>

\* { $set: req.body } on a Review document
SetReview(r, body) ==
    [r EXCEPT !.rating = Get(body.rating, r.rating), !.helperId = Get(body.helperId, r.helperId),
              !.bookingId = Get(body.bookingId, r.bookingId)]

\* PUT /api/reviews/:id (r3)
UpdateReview(rid, body) ==
    /\ rev = "r3"
    /\ IF ReviewById(reviews, rid) = {}
       THEN /\ last' = Resp("updateReview", 200, [NoArgs EXCEPT !.rid = rid])
            /\ UNCHANGED <<helpers, reviews>>
       ELSE LET r == CHOOSE x \in ReviewById(reviews, rid) : TRUE
                new == SetReview(r, body)
            IN IF new.bookingId # r.bookingId /\ ~UniqueBooking(reviews, new.bookingId)
               THEN /\ last' = Resp("updateReview", 500, [NoArgs EXCEPT !.rid = rid])
                    /\ UNCHANGED <<helpers, reviews>>
               ELSE /\ reviews' = Replace(reviews, r, new)
                    /\ helpers' = recalculateHelperRating(helpers, Replace(reviews, r, new), new.helperId)
                    /\ last' = Resp("updateReview", 200, [NoArgs EXCEPT !.rid = rid])
    /\ UNCHANGED <<rev, users, bookings, counters, reqs>>

\* DELETE /api/reviews/:id (r3)
DeleteReview(rid) ==
    /\ rev = "r3"
    /\ IF ReviewById(reviews, rid) = {}
       THEN /\ last' = Resp("deleteReview", 404, [NoArgs EXCEPT !.rid = rid])
            /\ UNCHANGED <<helpers, reviews, bookings>>
       ELSE LET deleted == CHOOSE x \in ReviewById(reviews, rid) : TRUE
            IN /\ reviews' = reviews \ {deleted}
               /\ helpers' = recalculateHelperRating(helpers, reviews \ {deleted}, deleted.helperId)
               /\ bookings' = SetReviewed(bookings, deleted.bookingId, FALSE)
               /\ last' = Resp("deleteReview", 200,
                               [NoArgs EXCEPT !.rid = rid, !.hid = deleted.helperId,
                                              !.bid = deleted.bookingId])
    /\ UNCHANGED <<rev, users, counters, reqs>>

(***************************************************************************)
(* Request bodies the clients send.                                        *)
(***************************************************************************)
Stats == [email : {{}}, status : {{}}, rating : {{r} : r \in BodyRatings},
          reviews : {{n} : n \in BodyReviews}]
\* bodies of the role and listing workflow: an email, a status, or nothing
ProfileBodies == {b \in EditBodies : b.rating = {} /\ b.reviews = {}
                                      /\ (b.email = {} \/ b.status = {})}
\* bodies of the review workflow: at most one field of the Review
OneField == {b \in ReviewBodies :
                Cardinality({f \in {"rating", "helperId", "bookingId"} : b[f] # {}}) <= 1}

(***************************************************************************)
(* The role and listing workflow: Accounts and listings, requests          *)
(* completing one after another on a fresh database.                       *)
(***************************************************************************)
NextRoles ==
    \/ \E e \in Emails, role \in Opt(Roles) : Register(e, role)
    \/ \E e \in Emails : GoogleLogin(e)
    \/ \E e \in Emails, role \in Opt(Roles) : UpdateUser(e, role)
    \/ \E e \in Emails : DeleteUser(e)
    \/ \E e \in Emails, newRole \in Roles : SetRole(e, newRole)
    \/ \E body \in {b \in CreateBodies : b.rating = {} /\ b.reviews = {}} : CreateHelper(body)
    \/ \E id \in Oids, body \in ProfileBodies : EditHelper(id, body)
    \/ \E e \in HelperEmails, body \in ProfileBodies : EditProfile(e, body)
    \/ \E id \in Oids : ApproveListing(id)
    \/ \E id \in Oids : RemoveListing(id)

SpecRoles == Init /\ [][NextRoles]_vars

(***************************************************************************)
(* The review workflow: bookings, reviews and the listings' aggregates,    *)
(* requests completing one after another.  It starts from a database that  *)
(* holds one Account and two listings (r2: the seeded ones; r3: one made   *)
(* by a promotion, one posted), every further _id having been used up by   *)
(* listings since removed.  Listings are created and removed in the role   *)
(* and listing workflow; r1 has no review routes.                          *)
(***************************************************************************)
InitReviews ==
    /\ rev \in {"r2", "r3"}
    /\ users = [e \in Emails |-> IF e = "sarah@test.com" THEN "helper" ELSE NoUser]
    /\ helpers = IF rev = "r2" THEN seedHelpers
                 ELSE {NewHelper(1, 1, "sarah@test.com", "Approved", NoBody),
                       NewHelper(2, 2, "amina@test.com", "Pending", NoBody)}
    /\ bookings = {}
    /\ reviews = {}
    /\ nextOid = MaxHelpers + 1
    /\ nextBid = 1
    /\ nextRid = 1
    /\ reqs = {}
    /\ last = NoResp

NextReviews ==
    \/ \E id \in Oids, body \in Stats : EditHelper(id, body)
    \/ \E isReviewed \in Opt({TRUE}) : CreateBooking("sarah@test.com", isReviewed)
    \/ \E id \in Bids, st \in BookingStatuses : SetBookingStatus(id, st)
    \/ \E id \in Bids : DeleteBooking(id)
    \/ \E bid \in Bids, hid \in ListedOids, rating \in SentRatings : SubmitReview(bid, hid, rating)
    \/ \E rid \in Rids, body \in OneField : UpdateReview(rid, body)
    \/ \E rid \in Rids : DeleteReview(rid)

SpecReviews == InitReviews /\ [][NextReviews]_vars

(***************************************************************************)
(* The interleaved review workflow.  POST /api/reviews awaits one database *)
(* round trip after another, and other requests run in between.  A request *)
(* in flight is [id, pc, bid, hid, rating, sum, n]: pc is the await it is  *)
(* about to make, sum and n the review statistics it has read.             *)
(***************************************************************************)
MaxInFlight == 2
ReqIds == 1..MaxInFlight

InitConc ==
    /\ rev \in {"r2", "r3"}
    /\ users = [e \in Emails |-> IF e = "sarah@test.com" THEN "helper" ELSE NoUser]
    /\ helpers = IF rev = "r2" THEN seedHelpers
                 ELSE {NewHelper(1, 1, "sarah@test.com", "Approved", NoBody),
                       NewHelper(2, 2, "amina@test.com", "Pending", NoBody)}
    /\ bookings = {[id |-> b, status |-> "Confirmed", isReviewed |-> FALSE] : b \in Bids}
    /\ reviews = {}
    /\ nextOid = MaxHelpers + 1
    /\ nextBid = MaxBookings + 1
    /\ nextRid = 1
    /\ reqs = {}
    /\ last = NoResp

Finish(q, code, a) ==
    /\ reqs' = reqs \ {q}
    /\ last' = Resp("submitReview", code, a)

Goto(q, pc) == reqs' = Replace(reqs, q, [q EXCEPT !.pc = pc])

\* the request arrives; r2 validates the body before its first await
BeginSubmit(bid, hid, rating) ==
    /\ rev \in {"r2", "r3"}
    /\ Cardinality(reqs) < MaxInFlight
    /\ LET id == CHOOSE i \in ReqIds : (\A q \in reqs : q.id # i)
                                       /\ \A j \in ReqIds : (\A q \in reqs : q.id # j) => i <= j
       IN reqs' = reqs \cup {[id |-> id, pc |-> IF rev = "r2" THEN "lookup" ELSE "insert",
                              bid |-> bid, hid |-> hid, rating |-> rating, sum |-> 0, n |-> 0]}
    /\ UNCHANGED <<rev, users, helpers, bookings, reviews, counters, last>>

\* await Booking.findOne({ id: bookingIdInt }) and the checks on its result (r2)
StepLookup(q) ==
    /\ q.pc = "lookup"
    /\ LET gate == ReviewGate(rev, bookings, q.bid, q.rating)
       IN IF gate # 0 THEN Finish(q, gate, [NoArgs EXCEPT !.bid = q.bid])
          ELSE Goto(q, "insert") /\ last' = last
    /\ UNCHANGED <<rev, users, helpers, bookings, reviews, counters>>

\* await reviewDocument.save()
StepInsert(q) ==
    /\ q.pc = "insert"
    /\ IF ~ValidRating(q.rating) \/ ~UniqueBooking(reviews, q.bid)
       THEN /\ Finish(q, 500, [NoArgs EXCEPT !.bid = q.bid])
            /\ UNCHANGED <<reviews, nextRid>>
       ELSE /\ nextRid <= MaxReviewDocs
            /\ reviews' = reviews \cup {[rid |-> nextRid, helperId |-> q.hid,
                                         bookingId |-> q.bid, rating |-> q.rating]}
            /\ nextRid' = nextRid + 1
            /\ Goto(q, "read")
            /\ last' = last
    /\ UNCHANGED <<rev, users, helpers, bookings, nextOid, nextBid>>

\* await Review.aggregate(...) (r2), await Review.find({ helperId }) (r3)
StepRead(q) ==
    /\ q.pc = "read"
    /\ reqs' = Replace(reqs, q, [q EXCEPT !.pc = "write",
                                          !.sum = SumRatings(ReviewsOf(reviews, q.hid)),
                                          !.n = Cardinality(ReviewsOf(reviews, q.hid))])
    /\ UNCHANGED <<rev, users, helpers, bookings, reviews, counters, last>>

\* the Helper collection after the update with the statistics read before
WriteAggregate(r, hs, hid, sum, n) ==
    IF ByOid(hs, hid) = {} THEN hs
    ELSE LET h == First(ByOid(hs, hid))
         IN IF n > 0
            THEN Replace(hs, h, [h EXCEPT !.rating = ToFixed1(sum, n), !.reviews = n])
            ELSE IF r = "r2" THEN hs
            ELSE Replace(hs, h, [h EXCEPT !.rating = 50, !.reviews = 0])

\* await Helper.updateOne(...) (r2), await Helper.findOneAndUpdate(...) (r3)
StepWrite(q) ==
    /\ q.pc = "write"
    /\ helpers' = WriteAggregate(rev, helpers, q.hid, q.sum, q.n)
    /\ Goto(q, "flag")
    /\ UNCHANGED <<rev, users, bookings, reviews, counters, last>>

\* await Booking.updateOne({ id }, { isReviewed: true }), then the 201 response
StepFlag(q) ==
    /\ q.pc = "flag"
    /\ bookings' = SetReviewed(bookings, q.bid, TRUE)
    /\ Finish(q, 201, [NoArgs EXCEPT !.bid = q.bid, !.hid = q.hid])
    /\ UNCHANGED <<rev, users, helpers, reviews, counters>>

\* bodies that move a review to another booking
RebookBodies == {b \in OneField : b.bookingId # {}}

NextConc ==
    \/ \E bid \in Bids, rating \in ReviewRatings : BeginSubmit(bid, 1, rating)
    \/ \E q \in reqs : StepLookup(q)
    \/ \E q \in reqs : StepInsert(q)
    \/ \E q \in reqs : StepRead(q)
    \/ \E q \in reqs : StepWrite(q)
    \/ \E q \in reqs : StepFlag(q)
    \/ \E rid \in Rids, body \in RebookBodies : UpdateReview(rid, body)
    \/ \E rid \in Rids : DeleteReview(rid)

SpecConc == InitConc /\ [][NextConc]_vars

(***************************************************************************)
(* The rating recomputation on its own: the database holds one listing     *)
(* with a stale aggregate and any set of up to MaxRecalcReviews reviews of *)
(* it, c[k] of them rated k.  r2 computes the aggregate only after an      *)
(* insert, so its review set is not empty.                                 *)
(***************************************************************************)
RatingAt(i, c) ==
    IF i <= c[1] THEN 1
    ELSE IF i <= c[1] + c[2] THEN 2
    ELSE IF i <= c[1] + c[2] + c[3] THEN 3
    ELSE IF i <= c[1] + c[2] + c[3] + c[4] THEN 4
    ELSE 5

ReviewSet(c) ==
    {[rid |-> i, helperId |-> 1, bookingId |-> i, rating |-> RatingAt(i, c)] :
        i \in 1..(c[1] + c[2] + c[3] + c[4] + c[5])}

InitRecalc ==
    /\ rev \in Revisions
    /\ users = [e \in Emails |-> NoUser]
    /\ helpers = {[NewHelper(1, 1, "sarah@test.com", "Approved", NoBody)
                      EXCEPT !.rating = 10, !.reviews = 7]}
    /\ bookings = {}
    /\ \E n1 \in 0..MaxRecalcReviews : \E n2 \in 0..(MaxRecalcReviews - n1) :
       \E n3 \in 0..(MaxRecalcReviews - n1 - n2) :
       \E n4 \in 0..(MaxRecalcReviews - n1 - n2 - n3) :
       \E n5 \in 0..(MaxRecalcReviews - n1 - n2 - n3 - n4) :
          /\ rev = "r2" => n1 + n2 + n3 + n4 + n5 > 0
          /\ reviews = ReviewSet(<<n1, n2, n3, n4, n5>>)
    /\ nextOid = 2
    /\ nextBid = 1
    /\ nextRid = Cardinality(reviews) + 1
    /\ reqs = {}
    /\ last = NoResp

\* one run of the recomputation for the listing hid; run is 2 when the run
\* completed just before it was a recomputation for the same listing, and 3
\* when a request writing to that listing was interrupted just before it
Recompute(hid) ==
    /\ helpers' = Aggregate(rev, helpers, reviews, hid)
    /\ last' = Resp("recompute", 200,
                    [NoArgs EXCEPT !.hid = hid,
                                   !.run = IF last.op = "recompute" /\ last.a.hid = hid THEN 2
                                           ELSE IF last.op = "crash" /\ last.a.hid = hid THEN 3
                                           ELSE 1])
    /\ UNCHANGED <<rev, users, bookings, reviews, counters, reqs>>

NextRecalc == \E h \in helpers : Recompute(h.oid)

SpecRecalc == InitRecalc /\ [][NextRecalc]_vars

(***************************************************************************)
(* Interruptions.  The handlers write to two or three collections without  *)
(* a transaction; the process can stop between two awaits, and the writes  *)
(* already made stay.                                                      *)
(***************************************************************************)
\* POST /api/reviews stops after reviewDocument.save() and before the 201
Crash(q) ==
    /\ q.pc \in {"read", "write", "flag"}
    /\ reqs' = reqs \ {q}
    /\ last' = Resp("crash", 0, [NoArgs EXCEPT !.bid = q.bid, !.hid = q.hid])
    /\ UNCHANGED <<rev, users, helpers, bookings, reviews, counters>>

\* DELETE /api/reviews/:id stops after findByIdAndDelete: before the
\* recomputation, or after it and before the booking is updated
DeleteReviewCut(rid, recalculated) ==
    /\ rev = "r3"
    /\ ReviewById(reviews, rid) # {}
    /\ LET deleted == CHOOSE x \in ReviewById(reviews, rid) : TRUE
       IN /\ reviews' = reviews \ {deleted}
          /\ helpers' = IF recalculated
                        THEN recalculateHelperRating(helpers, reviews \ {deleted}, deleted.helperId)
                        ELSE helpers
          /\ last' = Resp("crash", 0, [NoArgs EXCEPT !.rid = rid, !.hid = deleted.helperId,
                                                     !.bid = deleted.bookingId])
    /\ UNCHANGED <<rev, users, bookings, counters, reqs>>

NextCrash ==
    \/ \E bid \in Bids, rating \in ReviewRatings : BeginSubmit(bid, 1, rating)
    \/ \E q \in reqs : StepLookup(q)
    \/ \E q \in reqs : StepInsert(q)
    \/ \E q \in reqs : StepRead(q)
    \/ \E q \in reqs : StepWrite(q)
    \/ \E q \in reqs : StepFlag(q)
    \/ \E q \in reqs : Crash(q)
    \/ \E rid \in Rids : DeleteReview(rid)
    \/ \E rid \in Rids, recalculated \in BOOLEAN : DeleteReviewCut(rid, recalculated)
    \/ \E h \in helpers : Recompute(h.oid)

SpecCrash == InitConc /\ [][NextCrash]_vars

(***************************************************************************)
(* Interleaved promotions.  PUT /api/admin/users/:email/role with newRole  *)
(* helper awaits the Account update, the listing lookup, the listing count *)
(* and the insert one after another.  A promotion in flight is             *)
(* [id, pc, email, hid, n]: hid is the listing it found, n the count it    *)
(* read.                                                                   *)
(***************************************************************************)
InitPromote ==
    /\ rev \in Revisions
    /\ users = [e \in Emails |-> "user"]
    /\ helpers = IF rev = "r2" THEN seedHelpers ELSE {}
    /\ bookings = {}
    /\ reviews = {}
    /\ nextOid = IF rev = "r2" THEN 3 ELSE 1
    /\ nextBid = 1
    /\ nextRid = 1
    /\ reqs = {}
    /\ last = NoResp

\* id: count + 1
DisplayIdOfOid(count, oid) == oid

DisplayId(count, oid) == count + 1

FinishSetRole(q, code, a) ==
    /\ reqs' = reqs \ {q}
    /\ last' = Resp("setRole", code, [a EXCEPT !.email = q.email, !.role = "helper"])

BeginPromote(e) ==
    /\ Cardinality(reqs) < MaxInFlight
    /\ LET id == CHOOSE i \in ReqIds : (\A q \in reqs : q.id # i)
                                       /\ \A j \in ReqIds : (\A q \in reqs : q.id # j) => i <= j
       IN reqs' = reqs \cup {[id |-> id, pc |-> "update", email |-> e, hid |-> 0, n |-> 0]}
    /\ UNCHANGED <<rev, users, helpers, bookings, reviews, counters, last>>

\* await User.findOneAndUpdate({ email }, { $set: { role: newRole } })
StepUpdateUser(q) ==
    /\ q.pc = "update"
    /\ IF ~UserFound(users, q.email)
       THEN /\ FinishSetRole(q, 404, NoArgs)
            /\ users' = users
       ELSE /\ users' = [users EXCEPT ![q.email] = "helper"]
            /\ Goto(q, "find")
            /\ last' = last
    /\ UNCHANGED <<rev, helpers, bookings, reviews, counters>>

\* await Helper.findOne({ email }); r3 leaves a listing it finds alone, r2
\* one that is Approved
StepFind(q) ==
    /\ q.pc = "find"
    /\ IF ByEmail(helpers, q.email) = {}
       THEN Goto(q, "count") /\ last' = last
       ELSE LET h == First(ByEmail(helpers, q.email))
            IN IF rev = "r3" \/ (rev = "r2" /\ h.status # "Pending")
               THEN FinishSetRole(q, 200, NoArgs)
               ELSE /\ reqs' = Replace(reqs, q, [q EXCEPT !.pc = "approve", !.hid = h.oid])
                    /\ last' = last
    /\ UNCHANGED <<rev, users, helpers, bookings, reviews, counters>>

\* existingHelper.status = 'Approved'; await existingHelper.save()
StepApprove(q) ==
    /\ q.pc = "approve"
    /\ IF ByOid(helpers, q.hid) = {}
       THEN /\ FinishSetRole(q, 500, NoArgs)
            /\ helpers' = helpers
       ELSE /\ helpers' = Replace(helpers, First(ByOid(helpers, q.hid)),
                                  [First(ByOid(helpers, q.hid)) EXCEPT !.status = "Approved"])
            /\ FinishSetRole(q, 200, NoArgs)
    /\ UNCHANGED <<rev, users, bookings, reviews, counters>>

\* const count = await Helper.countDocuments()
StepCount(q) ==
    /\ q.pc = "count"
    /\ reqs' = Replace(reqs, q, [q EXCEPT !.pc = "insert", !.n = Cardinality(helpers)])
    /\ UNCHANGED <<rev, users, helpers, bookings, reviews, counters, last>>

\* await newHelper.save(), then the response
StepSave(q) ==
    /\ q.pc = "insert"
    /\ nextOid <= MaxHelpers
    /\ helpers' = helpers \cup
           {NewHelper(nextOid, DisplayId(q.n, nextOid), q.email, "Approved", NoBody)}
    /\ nextOid' = nextOid + 1
    /\ FinishSetRole(q, 200, [NoArgs EXCEPT !.hid = nextOid, !.run = 1])
    /\ UNCHANGED <<rev, users, bookings, reviews, nextBid, nextRid>>

NextPromote ==
    \/ \E e \in Emails : BeginPromote(e)
    \/ \E q \in reqs : StepUpdateUser(q)
    \/ \E q \in reqs : StepFind(q)
    \/ \E q \in reqs : StepApprove(q)
    \/ \E q \in reqs : StepCount(q)
    \/ \E q \in reqs : StepSave(q)
    \/ \E e \in Emails : SetRole(e, "user")
    \/ \E e \in Emails : DeleteUser(e)

SpecPromote == InitPromote /\ [][NextPromote]_vars

(***************************************************************************)
(* Properties.                                                             *)
(***************************************************************************)
\* C1: after any sequence of completed operations every listing's reviews
\* is the number of Reviews naming it and its rating is their mean rounded
\* to one decimal, or 5.0 and 0 when there are none.
C1_RatingMatchesReviews ==
    \A h \in helpers :
        LET mine == ReviewsOf(reviews, h.oid)
        IN IF mine = {} THEN h.rating = 50 /\ h.reviews = 0
           ELSE /\ h.reviews = Cardinality(mine)
                /\ h.rating = ToFixed1(SumRatings(mine), Cardinality(mine))

\* C2: after any sequence of completed operations a booking's isReviewed is
\* true if and only if a Review whose bookingId is the booking's id exists.
C2_ReviewedIffReview ==
    \A b \in bookings : b.isReviewed <=> (\E r \in reviews : r.bookingId = b.id)

\* C3: when setRole(email, newRole) has returned successfully, exactly one
\* listing has that email if newRole is helper, and none has it otherwise.
C3_SetRoleListing ==
    (last.op = "setRole" /\ last.code = 200) =>
        Cardinality(ByEmail(helpers, last.a.email)) = IF last.a.role = "helper" THEN 1 ELSE 0

\* C4: in every reachable state, interleaved submissions included, at most
\* one Review exists for any bookingId.
C4_OneReviewPerBooking ==
    \A r1 \in reviews, r2 \in reviews : r1.bookingId = r2.bookingId => r1 = r2

\* two submissions for one booking both passed r2's lookup, and the insert of
\* the second was refused while the Review of the first exists
C4_RaceRejected ==
    /\ rev = "r2"
    /\ last.op = "submitReview"
    /\ last.code = 500
    /\ \E r \in reviews : r.bookingId = last.a.bid

\* C5: a submitReview for a booking that is already reviewed or is not
\* Confirmed is rejected, and no Review is created, no booking and no
\* listing changes.
C5_RejectedSubmitChangesNothing ==
    [][(/\ last'.op = "submitReview"
        /\ \E b \in bookings : /\ b.id = last'.a.bid
                               /\ (b.isReviewed \/ b.status # "Confirmed"))
       => (/\ last'.code >= 400
           /\ reviews' = reviews
           /\ bookings' = bookings
           /\ helpers' = helpers)]_vars

\* C6: when approveListing has returned for an existing listing, the listing
\* is Approved and the Account of its email has role helper and exactly one
\* listing; when removeListing has returned, that Account has role user and
\* no listing with that email remains.
C6_ListingSideKeepsRole ==
    /\ (last.op = "approveListing" /\ last.code = 200 /\ last.a.hid # 0) =>
          /\ \A h \in ByOid(helpers, last.a.hid) : h.status = "Approved"
          /\ RoleOf(users, last.a.email) # NoUser =>
                /\ RoleOf(users, last.a.email) = "helper"
                /\ Cardinality(ByEmail(helpers, last.a.email)) = 1
    /\ (last.op = "removeListing" /\ last.code = 200 /\ last.a.hid # 0) =>
          /\ RoleOf(users, last.a.email) \in {NoUser, "user"}
          /\ ByEmail(helpers, last.a.email) = {}

\* C7: in every reachable state no two listings have the same email.
C7_OneListingPerEmail ==
    \A h1 \in helpers, h2 \in helpers : h1.email = h2.email => h1 = h2

\* C8: listing creation, listing edit, profile edit, approveListing and
\* setRole leave the rating and reviews of an existing listing unchanged and
\* create listings with rating 5.0 and reviews 0.
C8_OnlyRecomputeWritesStats ==
    [][last'.op \in {"createHelper", "editHelper", "editProfile", "approveListing", "setRole"}
       => \A n \in helpers' :
             IF ByOid(helpers, n.oid) = {}
             THEN n.rating = DefaultRating /\ n.reviews = DefaultReviews
             ELSE \A h \in ByOid(helpers, n.oid) : n.rating = h.rating /\ n.reviews = h.reviews]_vars

\* C9: for every set R of Reviews of a listing the recomputation writes
\* reviews = |R| and rating = the mean of R rounded half-up to one
\* fractional digit, and 5.0 and 0 when R is empty.
C9_HalfUpMean ==
    last.op = "recompute" =>
        \A h \in ByOid(helpers, last.a.hid) :
            LET mine == ReviewsOf(reviews, h.oid)
                n == Cardinality(mine)
            IN IF n = 0 THEN h.rating = 50 /\ h.reviews = 0
               ELSE /\ h.reviews = n
                    /\ h.rating = (20 * SumRatings(mine) + n) \div (2 * n)

\* C10: after a successful deleteReview(r), r no longer exists, the booking
\* r.bookingId has isReviewed = false, and the listing r.helperId has the
\* rating and reviews of the remaining Reviews.
C10_DeleteReviewPost ==
    (last.op = "deleteReview" /\ last.code = 200) =>
        /\ ReviewById(reviews, last.a.rid) = {}
        /\ \A b \in BookingById(bookings, last.a.bid) : ~b.isReviewed
        /\ \A h \in ByOid(helpers, last.a.hid) :
              LET mine == ReviewsOf(reviews, h.oid)
              IN IF mine = {} THEN h.rating = 50 /\ h.reviews = 0
                 ELSE /\ h.reviews = Cardinality(mine)
                      /\ h.rating = ToFixed1(SumRatings(mine), Cardinality(mine))

\* a Review was deleted, its booking and its listing exist, and the listing
\* keeps another Review
C10_DeletedWithRemaining ==
    /\ last.op = "deleteReview"
    /\ last.code = 200
    /\ BookingById(bookings, last.a.bid) # {}
    /\ ByOid(helpers, last.a.hid) # {}
    /\ ReviewsOf(reviews, last.a.hid) # {}

\* C11: updateReview and deleteReview for a reviewId that no Review has both
\* fail with NotFound and leave every Review, booking and listing unchanged.
C11_MissingReviewNotFound ==
    [][(/\ last'.op \in {"updateReview", "deleteReview"}
        /\ ReviewById(reviews, last'.a.rid) = {})
       => (/\ last'.code = 404
           /\ reviews' = reviews
           /\ bookings' = bookings
           /\ helpers' = helpers)]_vars

\* C12: setRole for an email with no Account fails with NotFound and changes
\* no Account and no listing, even if a listing with that email exists.
C12_SetRoleNotFound ==
    [][(last'.op = "setRole" /\ users[last'.a.email] = NoUser)
       => (/\ last'.code = 404
           /\ users' = users
           /\ helpers' = helpers)]_vars

\* setRole answered 404 for an email that has a listing and no Account
C12_RefusedWithListing ==
    /\ last.op = "setRole"
    /\ last.code = 404
    /\ users[last.a.email] = NoUser
    /\ ByEmail(helpers, last.a.email) # {}

\* C13: in every revision, when setRole(email, "helper") returns for an
\* existing Account whose email has a listing, the listing is Approved if it
\* was Pending and is unchanged if it was Approved.
C13_PromotionApprovesPending ==
    [][(/\ last'.op = "setRole"
        /\ last'.code = 200
        /\ last'.a.role = "helper"
        /\ Cardinality(ByEmail(helpers, last'.a.email)) = 1)
       => \A h \in ByEmail(helpers, last'.a.email) :
             helpers' = Replace(helpers, h, [h EXCEPT !.status = "Approved"])]_vars

\* C14: a second setRole(email, "helper") completed right after the one that
\* created the listing changes nothing: no further listing is created and
\* the single listing stays Approved with its fields unchanged.
C14_SecondPromotionNoOp ==
    [][(last'.op = "setRole" /\ last'.a.run = 2)
       => (/\ helpers' = helpers
           /\ users' = users
           /\ nextOid' = nextOid
           /\ Cardinality(ByEmail(helpers', last'.a.email)) = 1
           /\ \A h \in ByEmail(helpers', last'.a.email) : h.status = "Approved")]_vars

\* the second of two successive promotions has returned
C14_PromotedTwice ==
    /\ last.op = "setRole"
    /\ last.code = 200
    /\ last.a.run = 2
    /\ users[last.a.email] = "helper"
    /\ Cardinality(ByEmail(helpers, last.a.email)) = 1

\* C15: a booking's status never returns to Pending, and once it is Rejected
\* or Cancelled it never becomes Confirmed.
C15_StatusOneWay ==
    [][\A b \in bookings : \A c \in BookingById(bookings', b.id) :
          /\ b.status # "Pending" => c.status # "Pending"
          /\ b.status \in {"Rejected", "Cancelled"} => c.status # "Confirmed"]_vars

\* C16: after the removal of an Account has completed, no listing with
\* that Account's email exists.
C16_RemovalCascades ==
    (last.op = "deleteUser" /\ last.code = 200) => ByEmail(helpers, last.a.email) = {}

\* C17: a recomputation run right after a recomputation for the same
\* listing, the Reviews being the same, leaves the listing's rating and
\* reviews as the first run left them and changes no other document.
C17_RecomputeIdempotent ==
    [][(last'.op = "recompute" /\ last'.a.run = 2)
       => (/\ helpers' = helpers
           /\ reviews' = reviews
           /\ bookings' = bookings
           /\ users' = users)]_vars

\* the second of two successive recomputations over several Reviews has run
C17_RecomputedTwice ==
    /\ last.op = "recompute"
    /\ last.a.run = 2
    /\ Cardinality(ReviewsOf(reviews, last.a.hid)) > 1
    /\ \E h \in ByOid(helpers, last.a.hid) : h.reviews = Cardinality(ReviewsOf(reviews, last.a.hid))

\* C18: after a submitReview or deleteReview was interrupted between its
\* writes, one complete recomputation for the listing, the Reviews not
\* changing meanwhile, makes the listing's rating and reviews the rounded
\* mean and the count of its current Reviews.
C18_RecomputeRestores ==
    [][(last'.op = "recompute" /\ reqs' = reqs /\ reviews' = reviews)
       => \A h \in {x \in helpers' : x.oid = last'.a.hid} :
             LET mine == {r \in reviews' : r.helperId = h.oid}
             IN IF mine = {} THEN h.rating = 50 /\ h.reviews = 0
                ELSE /\ h.reviews = Cardinality(mine)
                     /\ h.rating = ToFixed1(SumRatings(mine), Cardinality(mine))]_vars

\* a recomputation has run right after an interrupted request: a Review of
\* the listing exists whose booking was never marked, and the listing
\* counts it
C18_RestoredAfterCrash ==
    /\ last.op = "recompute"
    /\ last.a.run = 3
    /\ reqs = {}
    /\ \E r \in reviews : /\ r.helperId = last.a.hid
                          /\ \E b \in bookings : b.id = r.bookingId /\ ~b.isReviewed
    /\ \E h \in helpers : /\ h.oid = last.a.hid
                          /\ h.reviews = Cardinality({r \in reviews : r.helperId = h.oid})

\* C19: when a submitReview was interrupted after the insert of the Review
\* and before the booking was marked, a re-submission for the same booking
\* that completes leaves the booking with isReviewed = true and exactly one
\* Review for it.
C19_RetryMarksBooking ==
    [][\A q \in reqs :
          (/\ \A o \in reqs' : o.id # q.id
           /\ last'.op = "submitReview"
           /\ q.pc \in {"lookup", "insert"}
           /\ \E r \in reviews : r.bookingId = q.bid
           /\ \E b \in bookings : b.id = q.bid /\ ~b.isReviewed
           /\ \A o \in reqs \ {q} : o.bid # q.bid)
          => (/\ \A b \in bookings' : b.id = q.bid => b.isReviewed
              /\ Cardinality({r \in reviews' : r.bookingId = q.bid}) = 1)]_vars

\* C20: the listing a promotion inserts gets the display id count + 1 of the
\* count the promotion read, so two concurrent promotions of two Accounts
\* without listing that read the same count create two listings with the
\* same display id; that state is reachable.
C20_IdFromCountRead ==
    [][\A q \in reqs :
          (q.pc = "insert" /\ \A o \in reqs' : o.id # q.id)
          => \E h \in helpers' \ helpers : h.email = q.email /\ h.id = q.n + 1]_vars

\* two promotions have inserted listings for two Accounts with one display
\* id, no listing having been removed before
C20_SameDisplayId ==
    /\ reqs = {}
    /\ last.op = "setRole"
    /\ last.code = 200
    /\ Cardinality(helpers) = nextOid - 1
    /\ \E h1 \in helpers, h2 \in helpers :
          /\ h1.oid = last.a.hid
          /\ h2.oid # h1.oid
          /\ h2.email # h1.email
          /\ h2.email \in Emails
          /\ h2.id = h1.id

\* C21: when requests complete one after another, no two listings that
\* exist at the same time have the same display id.
C21_DisplayIdsDistinct ==
    \A h1 \in helpers, h2 \in helpers : h1.id = h2.id => h1 = h2

\* C22: once two interleaved submitReview requests for two bookings of one
\* listing have both completed, the listing's reviews is the number of its
\* Reviews and its rating is their rounded mean.
C22_BothReviewsCounted ==
    (/\ reqs = {}
     /\ last.op = "submitReview"
     /\ last.code = 201
     /\ nextRid = 3
     /\ Cardinality(reviews) = 2)
    => \A h \in helpers :
          LET mine == {r \in reviews : r.helperId = h.oid}
          IN mine # {} => /\ h.reviews = Cardinality(mine)
                          /\ h.rating = ToFixed1(SumRatings(mine), Cardinality(mine))

\* C23: updateReview on an existing Review leaves its helperId and
\* bookingId, every other Review and every booking unchanged, and changes
\* the rating or reviews of no listing but the one the Review referenced
\* before the update.
C23_UpdateReviewFrame ==
    [][(last'.op = "updateReview" /\ last'.code = 200)
       => \A r \in ReviewById(reviews, last'.a.rid) :
             /\ \E n \in ReviewById(reviews', last'.a.rid) :
                   /\ n.helperId = r.helperId
                   /\ n.bookingId = r.bookingId
                   /\ reviews' \ {n} = reviews \ {r}
             /\ bookings' = bookings
             /\ \A h \in helpers' : h.oid # r.helperId => h \in helpers]_vars

=============================================================================
